---- MODULE Spec2Model ----
(***************************************************************************)
(* The interview session of main.py as a state machine.                    *)
(*                                                                         *)
(* Python strings that the program parses, compares or stores are modelled *)
(* as sequences of one-character strings, so that strip, split, the        *)
(* substring test and the score regular expression are computed.           *)
(* None is the empty set, and an optional text v is the set {v}.           *)
(***************************************************************************)
EXTENDS Integers, Sequences, FiniteSets, TLC

----------------------------------------------------------------------------
\* Bounds of the model.

\* The longest reply of the question-generation service, in question lines.
MaxLines == 4

\* The most answer records in a session the report synthesis is applied to
\* in SpecReport.
MaxReportRecords == 4

----------------------------------------------------------------------------
\* Literals of the program.

\* st.slider("Select number of questions", 3, 10, 5)
SliderMin == 3
SliderMax == 10
SliderDefault == 5

\* "Could not generate questions due to a block."
BlockedQuestion ==
    <<"C","o","u","l","d"," ","n","o","t"," ","g","e","n","e","r","a","t","e",
      " ","q","u","e","s","t","i","o","n","s"," ","d","u","e"," ","t","o"," ",
      "a"," ","b","l","o","c","k",".">>

\* "Could not generate questions. Check your API key and internet connection."
FailedQuestion ==
    <<"C","o","u","l","d"," ","n","o","t"," ","g","e","n","e","r","a","t","e",
      " ","q","u","e","s","t","i","o","n","s","."," ","C","h","e","c","k"," ",
      "y","o","u","r"," ","A","P","I"," ","k","e","y"," ","a","n","d"," ","i",
      "n","t","e","r","n","e","t"," ","c","o","n","n","e","c","t","i","o","n",
      ".">>

\* "Could not generate"
CouldNotGenerate ==
    <<"C","o","u","l","d"," ","n","o","t"," ","g","e","n","e","r","a","t","e">>

\* "Evaluation was blocked. The answer might contain sensitive content."
BlockedEvaluation ==
    <<"E","v","a","l","u","a","t","i","o","n"," ","w","a","s"," ","b","l","o",
      "c","k","e","d","."," ","T","h","e"," ","a","n","s","w","e","r"," ","m",
      "i","g","h","t"," ","c","o","n","t","a","i","n"," ","s","e","n","s","i",
      "t","i","v","e"," ","c","o","n","t","e","n","t",".">>

\* "Could not evaluate answer due to an error."
FailedEvaluation ==
    <<"C","o","u","l","d"," ","n","o","t"," ","e","v","a","l","u","a","t","e",
      " ","a","n","s","w","e","r"," ","d","u","e"," ","t","o"," ","a","n"," ",
      "e","r","r","o","r",".">>

\* "The final report was blocked due to safety settings."
BlockedReport ==
    <<"T","h","e"," ","f","i","n","a","l"," ","r","e","p","o","r","t"," ","w",
      "a","s"," ","b","l","o","c","k","e","d"," ","d","u","e"," ","t","o"," ",
      "s","a","f","e","t","y"," ","s","e","t","t","i","n","g","s",".">>

\* "Could not generate final report."
FailedReport ==
    <<"C","o","u","l","d"," ","n","o","t"," ","g","e","n","e","r","a","t","e",
      " ","f","i","n","a","l"," ","r","e","p","o","r","t",".">>

\* "Skipped"
SkippedAnswer ==
    <<"S","k","i","p","p","e","d">>

\* "No feedback."
NoFeedback ==
    <<"N","o"," ","f","e","e","d","b","a","c","k",".">>

\* The literal parts of the pattern r"Score: (\d+)/10".
\* "Score: "
ScorePrefix ==
    <<"S","c","o","r","e",":"," ">>

\* "/10"
ScoreSuffix ==
    <<"/","1","0">>

None == {}

Some(v) == {v}

----------------------------------------------------------------------------
\* Python's string and list operations, as the program uses them.

\* The characters str.strip() takes for whitespace. Texts are ASCII here, and
\* these are the ASCII characters for which str.isspace() holds: the space,
\* \t \n \v \f \r, and the separators \x1c \x1d \x1e \x1f.
Whitespace ==
    {" ", "\t", "\n", "", "\f", "\r", "", "", "", ""}

IsSpace(c) == c \in Whitespace

RECURSIVE lstrip(_)
lstrip(s) == IF s # <<>> /\ IsSpace(Head(s)) THEN lstrip(Tail(s)) ELSE s

RECURSIVE rstrip(_)
rstrip(s) ==
    IF s # <<>> /\ IsSpace(s[Len(s)])
    THEN rstrip(SubSeq(s, 1, Len(s) - 1))
    ELSE s

\* str.strip()
strip(s) == rstrip(lstrip(s))

\* str.split(sep) for a one-character separator: "" splits to [""].
RECURSIVE split(_, _)
split(s, sep) ==
    IF \E i \in 1..Len(s) : s[i] = sep
    THEN LET i == CHOOSE k \in 1..Len(s) :
                      s[k] = sep /\ \A j \in 1..(k - 1) : s[j] # sep
         IN  <<SubSeq(s, 1, i - 1)>> \o split(SubSeq(s, i + 1, Len(s)), sep)
    ELSE <<s>>

\* sub in s
Contains(sub, s) ==
    \E i \in 1..(Len(s) - Len(sub) + 1) : SubSeq(s, i, i + Len(sub) - 1) = sub

\* [x] * n
Repeat(x, n) == [i \in 1..n |-> x]

\* seq[:n], for n >= 0
Truncate(seq, n) == SubSeq(seq, 1, IF n < Len(seq) THEN n ELSE Len(seq))

IsDigit(c) == c \in {"0", "1", "2", "3", "4", "5", "6", "7", "8", "9"}

DigitVal(c) ==
    CASE c = "0" -> 0 [] c = "1" -> 1 [] c = "2" -> 2 [] c = "3" -> 3
      [] c = "4" -> 4 [] c = "5" -> 5 [] c = "6" -> 6 [] c = "7" -> 7
      [] c = "8" -> 8 [] c = "9" -> 9

DigitChar(d) ==
    CASE d = 0 -> "0" [] d = 1 -> "1" [] d = 2 -> "2" [] d = 3 -> "3"
      [] d = 4 -> "4" [] d = 5 -> "5" [] d = 6 -> "6" [] d = 7 -> "7"
      [] d = 8 -> "8" [] d = 9 -> "9"

\* int(text) for a text of decimal digits
RECURSIVE ParseInt(_)
ParseInt(s) ==
    IF s = <<>> THEN 0
    ELSE 10 * ParseInt(SubSeq(s, 1, Len(s) - 1)) + DigitVal(s[Len(s)])

\* str(k) for k >= 0
RECURSIVE IntToText(_)
IntToText(k) ==
    IF k < 10 THEN <<DigitChar(k)>>
    ELSE IntToText(k \div 10) \o <<DigitChar(k % 10)>>

----------------------------------------------------------------------------
\* What the outside world can hand to the program.

\* A reply of the language-model service to model.generate_content(prompt):
\* the call raises, the reply has no parts (blocked), or the reply has text.
Raised == [kind |-> "raised", text |-> <<>>]

Blocked == [kind |-> "blocked", text |-> <<>>]

Ok(t) == [kind |-> "ok", text |-> t]

\* The i-th line of a question reply; the second one has a space before it
\* and a vertical tab and a unit separator after it.
RawLine(i) ==
    IF i = 2 THEN <<" ", "Q", "2", "", "">> ELSE <<"Q">> \o IntToText(i)

\* A reply of k question lines, with a line holding only a form feed after
\* the first one.
RECURSIVE ReplyText(_)
ReplyText(k) ==
    IF k = 0 THEN <<>>
    ELSE IF k = 1 THEN RawLine(1)
    ELSE ReplyText(k - 1)
             \o (IF k = 2 THEN <<"\n", "\f", "\n">> ELSE <<"\n">>)
             \o RawLine(k)

\* "Q1 Could not generate\nQ2\nQ3"
PhraseReply ==
    <<"Q","1"," ","C","o","u","l","d"," ","n","o","t"," ","g","e","n","e","r",
      "a","t","e","\n","Q","2","\n","Q","3">>

QuestionReplies ==
    {ReplyText(k) \o <<"\n">> : k \in 0..MaxLines} \cup {PhraseReply}

GenResponses == {Raised, Blocked} \cup {Ok(t) : t \in QuestionReplies}

\* "Feedback: ok\nScore: 7/10\nImprovement Suggestion: none\n"
ScoredReply ==
    <<"F","e","e","d","b","a","c","k",":"," ","o","k","\n","S","c","o","r",
      "e",":"," ","7","/","1","0","\n","I","m","p","r","o","v","e","m","e",
      "n","t"," ","S","u","g","g","e","s","t","i","o","n",":"," ","n","o","n",
      "e","\n">>

\* "Feedback: vague\nScore: 6/10\nImprovement Suggestion: add detail"
LowerScoredReply ==
    <<"F","e","e","d","b","a","c","k",":"," ","v","a","g","u","e","\n","S",
      "c","o","r","e",":"," ","6","/","1","0","\n","I","m","p","r","o","v",
      "e","m","e","n","t"," ","S","u","g","g","e","s","t","i","o","n",":"," ",
      "a","d","d"," ","d","e","t","a","i","l">>

EvalResponses == {Raised, Blocked, Ok(ScoredReply), Ok(LowerScoredReply)}

\* "**Final Score: 7/10**\n"
ReportReply ==
    <<"*","*","F","i","n","a","l"," ","S","c","o","r","e",":"," ","7","/","1",
      "0","*","*","\n">>

ReportResponses == {Raised, Blocked, Ok(ReportReply)}

\* What the speech recogniser does: text, sr.UnknownValueError,
\* sr.RequestError, an exception of sr.Microphone() itself (no microphone),
\* or any other exception once the microphone is open (listen timeout).
\* "I led a team"
SpokenText ==
    <<"I"," ","l","e","d"," ","a"," ","t","e","a","m">>

SpeechOutcomes ==
    {[kind |-> "ok", text |-> SpokenText]}
        \cup {[kind |-> k, text |-> <<>>] :
                  k \in {"unknown_value", "request_error", "mic_error",
                        "listen_error"}}

\* What the user can type into the answer box.
AnswerTexts == {SpokenText}

JobRoles == {"Software Engineer", "Backend Engineer"}

Domains == {"Backend", ""}

InterviewTypes == {"Behavioral Interview", "Technical Interview"}

\* The slider positions the model tries.
QuestionCounts == {SliderMin, SliderDefault}

----------------------------------------------------------------------------
\* Messages the program shows (st.error, st.warning, st.info, st.success).

ErrorNotices ==
    {"error: questions blocked", "error: generating questions",
     "error: failed to generate questions", "error: evaluating answer",
     "error: generating final report", "error: speech service unavailable",
     "error: microphone", "error: GOOGLE_API_KEY not found",
     "error: tts init"}

WarningNotices ==
    {"warning: provide an answer", "warning: could not understand"}

----------------------------------------------------------------------------
\* The three calls of the language-model service.

\* The question generation with the cut one line late.
GenerateCutLate(role, itype, n, dom, response) ==
    IF response.kind = "raised" THEN Repeat(FailedQuestion, n)
    ELSE IF response.kind = "blocked" THEN Repeat(BlockedQuestion, n)
    ELSE LET lines == split(strip(response.text), "\n")
             stripped == [i \in 1..Len(lines) |-> strip(lines[i])]
         IN  Truncate(SelectSeq(stripped, LAMBDA q : q # <<>>), n + 1)

\* The question generation without the cut to num_questions.
GenerateUncut(role, itype, n, dom, response) ==
    IF response.kind = "raised" THEN Repeat(FailedQuestion, n)
    ELSE IF response.kind = "blocked" THEN Repeat(BlockedQuestion, n)
    ELSE LET lines == split(strip(response.text), "\n")
             stripped == [i \in 1..Len(lines) |-> strip(lines[i])]
         IN  SelectSeq(stripped, LAMBDA q : q # <<>>)

generate_llm_questions_gemini(role, itype, n, dom, response) ==
    IF response.kind = "raised" THEN Repeat(FailedQuestion, n)
    ELSE IF response.kind = "blocked" THEN Repeat(BlockedQuestion, n)
    ELSE LET questions_text == strip(response.text)
             lines == split(questions_text, "\n")
             stripped == [i \in 1..Len(lines) |-> strip(lines[i])]
         IN  Truncate(SelectSeq(stripped, LAMBDA q : q # <<>>), n)

generate_questions_notices(response) ==
    IF response.kind = "raised" THEN {"error: generating questions"}
    ELSE IF response.kind = "blocked" THEN {"error: questions blocked"}
    ELSE {}

evaluate_llm_answer_gemini(role, itype, question, user_answer, dom, response) ==
    IF response.kind = "raised" THEN FailedEvaluation
    ELSE IF response.kind = "blocked" THEN BlockedEvaluation
    ELSE strip(response.text)

evaluate_answer_notices(response) ==
    IF response.kind = "raised" THEN {"error: evaluating answer"} ELSE {}

\* The number of decimal digits of s from index i on.
RECURSIVE DigitRun(_, _)
DigitRun(s, i) ==
    IF i <= Len(s) /\ IsDigit(s[i]) THEN 1 + DigitRun(s, i + 1) ELSE 0

\* r"Score: (\d+)/10" matches s at index i. \d+ is greedy, and giving a
\* digit back never helps, since the next character must be "/".
ScoreMatchesAt(s, i) ==
    LET d == i + Len(ScorePrefix)
        n == DigitRun(s, d)
    IN  /\ d - 1 <= Len(s)
        /\ SubSeq(s, i, d - 1) = ScorePrefix
        /\ n >= 1
        /\ d + n + Len(ScoreSuffix) - 1 <= Len(s)
        /\ SubSeq(s, d + n, d + n + Len(ScoreSuffix) - 1) = ScoreSuffix

\* re.search(r"Score: (\d+)/10", feedback): None, or group(1) of the
\* leftmost match.
score_match(feedback) ==
    LET hits == {i \in 1..Len(feedback) : ScoreMatchesAt(feedback, i)}
    IN  IF hits = {} THEN None
        ELSE LET i == CHOOSE k \in hits : \A j \in hits : k <= j
                 d == i + Len(ScorePrefix)
             IN  Some(SubSeq(feedback, d, d + DigitRun(feedback, d) - 1))

\* The loop with every record counted in num_answered.
RECURSIVE ScoreTotalsOverAll(_)
ScoreTotalsOverAll(responses) ==
    IF responses = <<>> THEN [total_score |-> 0, num_answered |-> 0]
    ELSE LET before ==
                 ScoreTotalsOverAll(SubSeq(responses, 1, Len(responses) - 1))
             m == score_match(responses[Len(responses)].feedback)
         IN  [total_score |->
                  before.total_score
                      + (IF m # None THEN ParseInt(CHOOSE g \in m : TRUE)
                         ELSE 0),
              num_answered |-> before.num_answered + 1]

\* The loop over responses_with_feedback: [total_score, num_answered].
RECURSIVE ScoreTotals(_)
ScoreTotals(responses) ==
    IF responses = <<>> THEN [total_score |-> 0, num_answered |-> 0]
    ELSE LET before == ScoreTotals(SubSeq(responses, 1, Len(responses) - 1))
             m == score_match(responses[Len(responses)].feedback)
         IN  IF m # None
             THEN [total_score |->
                       before.total_score + ParseInt(CHOOSE g \in m : TRUE),
                   num_answered |-> before.num_answered + 1]
             ELSE before

\* The quotient in tenths with the digits after the first decimal cut off.
TruncatedTenths(total, n) == (10 * total) \div n

\* f"{total / n:.1f}" in tenths: the quotient rounded to the nearest tenth,
\* a tie to the even one. total / n is a float; for n <= SliderMax a tie is
\* a multiple of 1/4, which a float holds exactly, and no other quotient is
\* within a float's error of a tie.
RoundedTenths(total, n) ==
    LET q == (10 * total) \div n
        r == (10 * total) % n
    IN  IF 2 * r > n THEN q + 1
        ELSE IF 2 * r < n THEN q
        ELSE IF q % 2 = 0 THEN q ELSE q + 1

\* f"{avg_score:.1f}", with avg_score = total / n if n > 0 else 0
FormatAverage(total, n) ==
    LET tenths == IF n > 0 THEN RoundedTenths(total, n) ELSE 0
    IN  IntToText(tenths \div 10) \o <<".">> \o <<DigitChar(tenths % 10)>>

\* The average score written into the report prompt.
prompt_avg_score(responses_with_feedback) ==
    LET t == ScoreTotals(responses_with_feedback)
    IN  FormatAverage(t.total_score, t.num_answered)

generate_final_report_gemini(role, itype, responses_with_feedback, response) ==
    IF response.kind = "raised" THEN FailedReport
    ELSE IF response.kind = "blocked" THEN BlockedReport
    ELSE strip(response.text)

final_report_notices(response) ==
    IF response.kind = "raised" THEN {"error: generating final report"} ELSE {}

\* recognize_speech_live(): the text, or "" on every failure.
recognize_speech_live(speech) ==
    IF speech.kind = "ok" THEN speech.text ELSE <<>>

recognize_speech_notices(speech) ==
    CASE speech.kind = "ok" -> {"info: listening", "success: you said"}
      [] speech.kind = "unknown_value" ->
             {"info: listening", "warning: could not understand"}
      [] speech.kind = "request_error" ->
             {"info: listening", "error: speech service unavailable"}
      [] speech.kind = "mic_error" -> {"error: microphone"}
      [] speech.kind = "listen_error" ->
             {"info: listening", "error: microphone"}

----------------------------------------------------------------------------
\* The state: the process environment, st.session_state, and what the last
\* run of the script did.

VARIABLES
    api_key,               \* os.getenv("GOOGLE_API_KEY") is set
    engine,                \* pyttsx3.init() returns an engine: the module's
                           \* engine is not None
    initialized,           \* "interview_started" in st.session_state
    interview_started,
    all_responses,
    current_question_idx,
    questions,
    current_user_answer,
    final_report,
    job_role,
    domain,
    interview_type,
    num_questions,
    rerun_requested,       \* the last run ended in st.rerun(): the script
                           \* was stopped there and runs again at once
    run                    \* the last run: the action taken, the service
                           \* called, the messages shown, and the average
                           \* score written into a report prompt

session ==
    <<interview_started, all_responses, current_question_idx, questions,
      current_user_answer, final_report>>

config == <<job_role, domain, interview_type, num_questions>>

vars ==
    <<api_key, engine, initialized, session, config, rerun_requested, run>>

\* The module's own statements, which every run of the script executes
\* before main(): an error is shown when the speech engine cannot be made.
module_notices == IF engine THEN {} ELSE {"error: tts init"}

\* The summary screen's heading, shown by every run that draws that screen
\* before it comes to the buttons.
summary_notices == {"success: interview completed"}

\* No run of the script yet.
NoRun ==
    [action |-> "none", gateway |-> "none", notices |-> {},
     avg_score |-> <<>>]

\* A run of the script: the messages are the module's and the handler's.
Run(action, gateway, notices, avg) ==
    [action |-> action, gateway |-> gateway,
     notices |-> module_notices \cup notices, avg_score |-> avg]

\* The phase of the session, by the branches of interview_page.
Phase ==
    IF ~initialized THEN "NoSession"
    ELSE IF ~interview_started THEN "Setup"
    ELSE IF current_question_idx < Len(questions) THEN "InProgress"
    ELSE IF final_report = None THEN "Summary"
    ELSE "Reported"

\* The values the first lines of interview_page give a session that has none.
InitialSession ==
    [interview_started |-> FALSE, all_responses |-> <<>>,
     current_question_idx |-> 0, questions |-> <<>>,
     current_user_answer |-> <<>>, final_report |-> None]

\* The values the setup widgets hold when first drawn.
DefaultConfig ==
    [job_role |-> "Software Engineer", domain |-> "Backend",
     interview_type |-> "Behavioral Interview",
     num_questions |-> SliderDefault]

\* The session as a record, to compare it with those.
SessionNow ==
    [interview_started |-> interview_started,
     all_responses |-> all_responses,
     current_question_idx |-> current_question_idx, questions |-> questions,
     current_user_answer |-> current_user_answer,
     final_report |-> final_report]

ConfigNow ==
    [job_role |-> job_role, domain |-> domain,
     interview_type |-> interview_type, num_questions |-> num_questions]

\* if "interview_started" not in st.session_state: ..., and then the setup
\* widgets, drawn anew, store their defaults.
CreateSession ==
    /\ initialized' = TRUE
    /\ interview_started' = InitialSession.interview_started
    /\ all_responses' = InitialSession.all_responses
    /\ current_question_idx' = InitialSession.current_question_idx
    /\ questions' = InitialSession.questions
    /\ current_user_answer' = InitialSession.current_user_answer
    /\ final_report' = InitialSession.final_report
    /\ job_role' = DefaultConfig.job_role
    /\ domain' = DefaultConfig.domain
    /\ interview_type' = DefaultConfig.interview_type
    /\ num_questions' = DefaultConfig.num_questions

\* del st.session_state[key] for every key: no session is left. The
\* variables of the absent keys hold what they hold before the first run.
DeleteSession ==
    /\ initialized' = FALSE
    /\ interview_started' = InitialSession.interview_started
    /\ all_responses' = InitialSession.all_responses
    /\ current_question_idx' = InitialSession.current_question_idx
    /\ questions' = InitialSession.questions
    /\ current_user_answer' = InitialSession.current_user_answer
    /\ final_report' = InitialSession.final_report
    /\ job_role' = DefaultConfig.job_role
    /\ domain' = DefaultConfig.domain
    /\ interview_type' = DefaultConfig.interview_type
    /\ num_questions' = DefaultConfig.num_questions

Init ==
    /\ api_key \in BOOLEAN
    /\ engine \in BOOLEAN
    /\ initialized = FALSE
    /\ interview_started = InitialSession.interview_started
    /\ all_responses = InitialSession.all_responses
    /\ current_question_idx = InitialSession.current_question_idx
    /\ questions = InitialSession.questions
    /\ current_user_answer = InitialSession.current_user_answer
    /\ final_report = InitialSession.final_report
    /\ job_role = DefaultConfig.job_role
    /\ domain = DefaultConfig.domain
    /\ interview_type = DefaultConfig.interview_type
    /\ num_questions = DefaultConfig.num_questions
    /\ rerun_requested = FALSE
    /\ run = NoRun

\* A run of the script without the key: the module's messages and the two
\* of main(), and interview_page is not called.
MainNoKey ==
    /\ ~api_key
    /\ run' = Run("load", "none",
                  {"error: GOOGLE_API_KEY not found", "info: .env file"}, <<>>)
    /\ rerun_requested' = FALSE
    /\ UNCHANGED <<api_key, engine, initialized, session, config>>

\* interview_page called without the test of the key.
PageLoadWithoutKey ==
    /\ ~initialized
    /\ CreateSession
    /\ run' = Run("load", "none", {}, <<>>)
    /\ rerun_requested' = FALSE
    /\ UNCHANGED <<api_key, engine>>

\* A run of the script with the key that finds no session, the first one or
\* the one after a reset: the session is created and the setup screen is
\* drawn.
PageLoad ==
    /\ api_key
    /\ ~initialized
    /\ CreateSession
    /\ run' = Run("load", "none", {}, <<>>)
    /\ rerun_requested' = FALSE
    /\ UNCHANGED <<api_key, engine>>

\* The setup widgets drawn, and stored, on every screen.
ConfigureAnytime(role, dom, itype, n) ==
    /\ api_key
    /\ initialized
    /\ job_role' = role
    /\ domain' = dom
    /\ interview_type' = itype
    /\ num_questions' = n
    /\ run' = Run("configure", "none", {}, <<>>)
    /\ rerun_requested' = FALSE
    /\ UNCHANGED <<api_key, engine, initialized, session>>

\* A run of the setup screen after the user has moved its widgets.
Configure(role, dom, itype, n) ==
    /\ api_key
    /\ Phase = "Setup"
    /\ ~rerun_requested
    /\ job_role' = role
    /\ domain' = dom
    /\ interview_type' = itype
    /\ num_questions' = n
    /\ run' = Run("configure", "none", {}, <<>>)
    /\ rerun_requested' = FALSE
    /\ UNCHANGED <<api_key, engine, initialized, session>>

\* Start without the test of the generated list.
StartUnchecked(response) ==
    /\ api_key
    /\ Phase = "Setup"
    /\ ~rerun_requested
    /\ questions' =
           generate_llm_questions_gemini(
               job_role, interview_type, num_questions, domain, response)
    /\ interview_started' = TRUE
    /\ current_question_idx' = 0
    /\ all_responses' = <<>>
    /\ final_report' = None
    /\ run' = Run("start", "generate", generate_questions_notices(response),
                  <<>>)
    /\ rerun_requested' = TRUE
    /\ UNCHANGED <<api_key, engine, initialized, current_user_answer, config>>

\* "Start Interview"
Start(response) ==
    /\ api_key
    /\ Phase = "Setup"
    /\ ~rerun_requested
    /\ LET generated ==
               generate_llm_questions_gemini(
                   job_role, interview_type, num_questions, domain, response)
       IN  /\ questions' = generated
           /\ IF generated # <<>> /\ ~Contains(CouldNotGenerate, generated[1])
              THEN /\ interview_started' = TRUE
                   /\ current_question_idx' = 0
                   /\ all_responses' = <<>>
                   /\ final_report' = None
                   /\ run' = Run("start", "generate",
                                 generate_questions_notices(response), <<>>)
                   /\ rerun_requested' = TRUE
              ELSE /\ run' = Run("start", "generate",
                                 generate_questions_notices(response)
                                     \cup {"error: failed to generate questions"},
                                 <<>>)
                   /\ rerun_requested' = FALSE
                   /\ UNCHANGED <<interview_started, current_question_idx,
                                  all_responses, final_report>>
    /\ UNCHANGED <<api_key, engine, initialized, current_user_answer, config>>

\* A voice answer that keeps the pending answer when recognition fails.
VoiceAnswerKeepsText(speech) ==
    /\ api_key
    /\ Phase = "InProgress"
    /\ ~rerun_requested
    /\ current_user_answer' =
           IF speech.kind = "ok" THEN speech.text ELSE current_user_answer
    /\ run' = Run("voice", "none", recognize_speech_notices(speech), <<>>)
    /\ rerun_requested' = TRUE
    /\ UNCHANGED <<api_key, engine, initialized, interview_started, all_responses,
                   current_question_idx, questions, final_report, config>>

\* "Answer with Voice"
VoiceAnswer(speech) ==
    /\ api_key
    /\ Phase = "InProgress"
    /\ ~rerun_requested
    /\ current_user_answer' = recognize_speech_live(speech)
    /\ run' = Run("voice", "none", recognize_speech_notices(speech), <<>>)
    /\ rerun_requested' = TRUE
    /\ UNCHANGED <<api_key, engine, initialized, interview_started, all_responses,
                   current_question_idx, questions, final_report, config>>

\* Submit that stays on the question when the evaluation fails.
SubmitStaysOnFailure(user_answer, response) ==
    /\ api_key
    /\ Phase = "InProgress"
    /\ ~rerun_requested
    /\ LET question == questions[current_question_idx + 1]
       IN  IF user_answer # <<>> /\ response.kind = "ok"
           THEN /\ all_responses' =
                       Append(all_responses,
                              [question |-> question,
                               answer |-> user_answer,
                               feedback |->
                                   evaluate_llm_answer_gemini(
                                       job_role, interview_type, question,
                                       user_answer, domain, response)])
                /\ current_question_idx' = current_question_idx + 1
                /\ current_user_answer' = <<>>
                /\ run' = Run("submit", "evaluate", {}, <<>>)
                /\ rerun_requested' = TRUE
           ELSE /\ run' = Run("submit",
                              IF user_answer # <<>> THEN "evaluate"
                              ELSE "none",
                              IF user_answer # <<>>
                              THEN {"error: evaluating answer"}
                              ELSE {"warning: provide an answer"},
                              <<>>)
                /\ rerun_requested' = FALSE
                /\ UNCHANGED <<all_responses, current_question_idx,
                               current_user_answer>>
    /\ UNCHANGED <<api_key, engine, initialized, interview_started, questions,
                   final_report, config>>

\* Submit without the test of user_answer.
SubmitUnchecked(user_answer, response) ==
    /\ api_key
    /\ Phase = "InProgress"
    /\ ~rerun_requested
    /\ LET question == questions[current_question_idx + 1]
       IN  all_responses' =
               Append(all_responses,
                      [question |-> question,
                       answer |-> user_answer,
                       feedback |->
                           evaluate_llm_answer_gemini(
                               job_role, interview_type, question,
                               user_answer, domain, response)])
    /\ current_question_idx' = current_question_idx + 1
    /\ current_user_answer' = <<>>
    /\ run' = Run("submit", "evaluate", evaluate_answer_notices(response),
                  <<>>)
    /\ rerun_requested' = TRUE
    /\ UNCHANGED <<api_key, engine, initialized, interview_started, questions,
                   final_report, config>>

\* "Submit Answer", with user_answer in the answer box
Submit(user_answer, response) ==
    /\ api_key
    /\ Phase = "InProgress"
    /\ ~rerun_requested
    /\ LET question == questions[current_question_idx + 1]
       IN  IF user_answer # <<>>
           THEN LET feedback ==
                        evaluate_llm_answer_gemini(
                            job_role, interview_type, question, user_answer,
                            domain, response)
                IN  /\ all_responses' =
                           Append(all_responses,
                                  [question |-> question,
                                   answer |-> user_answer,
                                   feedback |-> feedback])
                    /\ current_question_idx' = current_question_idx + 1
                    /\ current_user_answer' = <<>>
                    /\ run' = Run("submit", "evaluate",
                                  evaluate_answer_notices(response), <<>>)
                    /\ rerun_requested' = TRUE
           ELSE /\ run' = Run("submit", "none",
                              {"warning: provide an answer"}, <<>>)
                /\ rerun_requested' = FALSE
                /\ UNCHANGED <<all_responses, current_question_idx,
                               current_user_answer>>
    /\ UNCHANGED <<api_key, engine, initialized, interview_started, questions,
                   final_report, config>>

\* Skip that puts its record in front of the others.
SkipPrepends ==
    /\ api_key
    /\ Phase = "InProgress"
    /\ ~rerun_requested
    /\ all_responses' =
           <<[question |-> questions[current_question_idx + 1],
              answer |-> SkippedAnswer,
              feedback |-> NoFeedback]>> \o all_responses
    /\ current_question_idx' = current_question_idx + 1
    /\ current_user_answer' = <<>>
    /\ run' = Run("skip", "none", {}, <<>>)
    /\ rerun_requested' = TRUE
    /\ UNCHANGED <<api_key, engine, initialized, interview_started, questions,
                   final_report, config>>

\* Skip that records the first question whatever the index.
SkipRecordsFirstQuestion ==
    /\ api_key
    /\ Phase = "InProgress"
    /\ ~rerun_requested
    /\ all_responses' =
           Append(all_responses,
                  [question |-> questions[1],
                   answer |-> SkippedAnswer,
                   feedback |-> NoFeedback])
    /\ current_question_idx' = current_question_idx + 1
    /\ current_user_answer' = <<>>
    /\ run' = Run("skip", "none", {}, <<>>)
    /\ rerun_requested' = TRUE
    /\ UNCHANGED <<api_key, engine, initialized, interview_started, questions,
                   final_report, config>>

\* Skip without the step of the index.
SkipKeepsIndex ==
    /\ api_key
    /\ Phase = "InProgress"
    /\ ~rerun_requested
    /\ all_responses' =
           Append(all_responses,
                  [question |-> questions[current_question_idx + 1],
                   answer |-> SkippedAnswer,
                   feedback |-> NoFeedback])
    /\ current_user_answer' = <<>>
    /\ run' = Run("skip", "none", {}, <<>>)
    /\ rerun_requested' = TRUE
    /\ UNCHANGED <<api_key, engine, initialized, interview_started, questions,
                   current_question_idx, final_report, config>>

\* Skip that records the text of the answer box.
SkipRecordsAnswer ==
    /\ api_key
    /\ Phase = "InProgress"
    /\ ~rerun_requested
    /\ all_responses' =
           Append(all_responses,
                  [question |-> questions[current_question_idx + 1],
                   answer |-> current_user_answer,
                   feedback |-> NoFeedback])
    /\ current_question_idx' = current_question_idx + 1
    /\ current_user_answer' = <<>>
    /\ run' = Run("skip", "none", {}, <<>>)
    /\ rerun_requested' = TRUE
    /\ UNCHANGED <<api_key, engine, initialized, interview_started, questions,
                   final_report, config>>

\* "Skip Question"
Skip ==
    /\ api_key
    /\ Phase = "InProgress"
    /\ ~rerun_requested
    /\ all_responses' =
           Append(all_responses,
                  [question |-> questions[current_question_idx + 1],
                   answer |-> SkippedAnswer,
                   feedback |-> NoFeedback])
    /\ current_question_idx' = current_question_idx + 1
    /\ current_user_answer' = <<>>
    /\ run' = Run("skip", "none", {}, <<>>)
    /\ rerun_requested' = TRUE
    /\ UNCHANGED <<api_key, engine, initialized, interview_started, questions,
                   final_report, config>>

\* The report button drawn whether or not there is a report.
GenerateReportAgain(response) ==
    /\ api_key
    /\ Phase \in {"Summary", "Reported"}
    /\ ~rerun_requested
    /\ final_report' =
           Some(generate_final_report_gemini(
                    job_role, interview_type, all_responses, response))
    /\ run' = Run("report", "report",
                  summary_notices \cup final_report_notices(response),
                  prompt_avg_score(all_responses))
    /\ rerun_requested' = TRUE
    /\ UNCHANGED <<api_key, engine, initialized, interview_started, all_responses,
                   current_question_idx, questions, current_user_answer,
                   config>>

\* The report button drawn on the interview screen as well.
GenerateReportEarly(response) ==
    /\ api_key
    /\ Phase \in {"InProgress", "Summary"}
    /\ ~rerun_requested
    /\ final_report = None
    /\ final_report' =
           Some(generate_final_report_gemini(
                    job_role, interview_type, all_responses, response))
    /\ run' = Run("report", "report",
                  (IF Phase = "Summary" THEN summary_notices ELSE {})
                      \cup final_report_notices(response),
                  prompt_avg_score(all_responses))
    /\ rerun_requested' = TRUE
    /\ UNCHANGED <<api_key, engine, initialized, interview_started, all_responses,
                   current_question_idx, questions, current_user_answer,
                   config>>

\* "Generate Final Report": drawn on the summary screen, below its heading,
\* while there is no report.
GenerateReport(response) ==
    /\ api_key
    /\ Phase = "Summary"
    /\ ~rerun_requested
    /\ final_report' =
           Some(generate_final_report_gemini(
                    job_role, interview_type, all_responses, response))
    /\ run' = Run("report", "report",
                  summary_notices \cup final_report_notices(response),
                  prompt_avg_score(all_responses))
    /\ rerun_requested' = TRUE
    /\ UNCHANGED <<api_key, engine, initialized, interview_started, all_responses,
                   current_question_idx, questions, current_user_answer,
                   config>>

\* A reset that clears the session's flag and index and keeps the rest.
ResetKeepsData ==
    /\ api_key
    /\ Phase \in {"Summary", "Reported"}
    /\ ~rerun_requested
    /\ interview_started' = FALSE
    /\ current_question_idx' = 0
    /\ run' = Run("reset", "none", summary_notices, <<>>)
    /\ rerun_requested' = TRUE
    /\ UNCHANGED <<api_key, engine, initialized, all_responses, questions,
                   current_user_answer, final_report, config>>

\* "Start New Interview": drawn on the summary screen, below its heading.
\* The run deletes every key of the session and ends; st.rerun() asks for
\* the next run, which finds no session and is PageLoad (or MainNoKey).
Reset ==
    /\ api_key
    /\ Phase \in {"Summary", "Reported"}
    /\ ~rerun_requested
    /\ DeleteSession
    /\ run' = Run("reset", "none", summary_notices, <<>>)
    /\ rerun_requested' = TRUE
    /\ UNCHANGED <<api_key, engine>>

\* The messages a screen shows by itself, whatever button is pressed: the
\* summary screen has its heading, the interview screen has none.
screen_notices ==
    IF Phase \in {"Summary", "Reported"} THEN summary_notices ELSE {}

\* A run of the script that no button causes, on the interview screen or the
\* summary screen: the run st.rerun() asks for after a start, a voice answer,
\* a submit, a skip or a report, which is then the only run there can be, or
\* one the user causes by editing the answer box or reloading the page. It
\* draws the screen to its end and leaves the session as it is. (On the
\* setup screen such a run is Configure with the values unchanged, and
\* without a session it is PageLoad.)
Rerun ==
    /\ api_key
    /\ Phase \in {"InProgress", "Summary", "Reported"}
    /\ run' = Run("rerun", "none", screen_notices, <<>>)
    /\ rerun_requested' = FALSE
    /\ UNCHANGED <<api_key, engine, initialized, session, config>>

\* What the user can have in the answer box when pressing "Submit Answer".
UserAnswers == {<<>>, current_user_answer} \cup AnswerTexts

Next ==
    \/ MainNoKey
    \/ PageLoad
    \/ \E role \in JobRoles, dom \in Domains, itype \in InterviewTypes,
          n \in QuestionCounts : Configure(role, dom, itype, n)
    \/ \E response \in GenResponses : Start(response)
    \/ \E speech \in SpeechOutcomes : VoiceAnswer(speech)
    \/ \E user_answer \in UserAnswers, response \in EvalResponses :
           Submit(user_answer, response)
    \/ Skip
    \/ \E response \in ReportResponses : GenerateReport(response)
    \/ Reset
    \/ Rerun

Spec == Init /\ [][Next]_vars

----------------------------------------------------------------------------
\* Report synthesis on its own: every completed session of up to
\* MaxReportRecords questions whose records carry the feedback texts below,
\* with its summary screen drawn, and the report action and the drawing of
\* the screen applied to it.

\* "Feedback: fine\nScore: [8]/10\nImprovement Suggestion: none"
BracketedScore ==
    <<"F","e","e","d","b","a","c","k",":"," ","f","i","n","e","\n","S","c",
      "o","r","e",":"," ","[","8","]","/","1","0","\n","I","m","p","r","o",
      "v","e","m","e","n","t"," ","S","u","g","g","e","s","t","i","o","n",":",
      " ","n","o","n","e">>

\* "Score: 10/10"
FullScore ==
    <<"S","c","o","r","e",":"," ","1","0","/","1","0">>

\* "Score: 3/10\nFinal Score: 9/10"
TwoScores ==
    <<"S","c","o","r","e",":"," ","3","/","1","0","\n","F","i","n","a","l",
      " ","S","c","o","r","e",":"," ","9","/","1","0">>

ReportFeedbacks ==
    {strip(ScoredReply), strip(LowerScoredReply), NoFeedback,
     FailedEvaluation, BlockedEvaluation, BracketedScore, FullScore,
     TwoScores}

\* The record of question q with feedback f: a skip if f is the skip's
\* feedback, a submitted answer otherwise.
RecordWith(q, f) ==
    [question |-> q,
     answer |-> IF f = NoFeedback THEN SkippedAnswer ELSE SpokenText,
     feedback |-> f]

InitReport ==
    /\ api_key = TRUE
    /\ engine \in BOOLEAN
    /\ initialized = TRUE
    /\ interview_started = TRUE
    /\ job_role = DefaultConfig.job_role
    /\ domain = DefaultConfig.domain
    /\ interview_type = DefaultConfig.interview_type
    /\ num_questions = DefaultConfig.num_questions
    /\ \E m \in 1..MaxReportRecords :
           /\ questions =
                  generate_llm_questions_gemini(
                      job_role, interview_type, num_questions, domain,
                      Ok(ReplyText(m)))
           /\ \E fs \in [1..m -> ReportFeedbacks] :
                  /\ all_responses =
                         [i \in 1..m |-> RecordWith(questions[i], fs[i])]
           /\ current_question_idx = m
    /\ rerun_requested = FALSE
    /\ run = Run("rerun", "none", summary_notices, <<>>)
    /\ current_user_answer = <<>>
    /\ final_report = None

NextReport ==
    \/ \E response \in ReportResponses : GenerateReport(response)
    \/ Rerun

SpecReport == InitReport /\ [][NextReport]_vars

----------------------------------------------------------------------------
\* Properties of the session.

IsError(notice) == notice \in ErrorNotices

IsWarning(notice) == notice \in WarningNotices

\* C1: in every state of a session, whatever actions led to it,
\* current_question_idx is the number of entries of all_responses.
C1_IndexCountsResponses == current_question_idx = Len(all_responses)

C1_Witness ==
    /\ Phase = "InProgress"
    /\ current_question_idx = 2
    /\ all_responses[1].answer = SkippedAnswer
    /\ all_responses[2].answer = SpokenText
    /\ run.action = "voice"

\* C2: right after the advance (a submit of a non-empty answer, or a skip)
\* that makes the number of advances of a started session equal to the
\* configured question count, the phase is Summary.
C2_SummaryAfterCountAdvances ==
    [][(/\ run'.action \in {"submit", "skip"}
        /\ Len(all_responses') = Len(all_responses) + 1
        /\ Len(all_responses') = num_questions)
           => Phase' = "Summary"]_vars

C2_Witness ==
    /\ Phase = "Summary"
    /\ run.action = "skip"
    /\ Len(all_responses) = num_questions
    /\ \E i \in 1..Len(all_responses) : all_responses[i].answer = SpokenText

\* C3: a start whose question generation fails or yields nothing leaves the
\* phase Setup, stores no questions, shows an error, and leaves the index,
\* the records and the report as they were.
C3_FailedStartStoresNothing ==
    [][(run'.action = "start" /\ ~interview_started')
           => /\ Phase' = "Setup"
              /\ questions' = <<>>
              /\ \E notice \in run'.notices : IsError(notice)
              /\ UNCHANGED <<current_question_idx, all_responses,
                             final_report>>]_vars

\* The state a reset step leaves has no session, and the one step enabled
\* in it is the run st.rerun() asked for, which leads to Setup.
ResetLeadsToSetup ==
    run.action = "reset"
        => /\ Phase = "NoSession"
           /\ ENABLED (PageLoad /\ Phase' = "Setup")
           /\ ~ENABLED (Next /\ Phase' # "Setup")

\* C4: in InProgress, in Summary and in Reported, once the screen is drawn,
\* a reset step is enabled, and it leads to Setup.
C4_ResetEnabledInEveryPhase ==
    /\ (Phase \in {"InProgress", "Summary", "Reported"} /\ ~rerun_requested)
           => ENABLED Reset
    /\ ResetLeadsToSetup

\* C5: a reset leaves no session, whatever the session held, and the step
\* that follows it gives the session of startup: not started, no questions,
\* index 0, no records, no pending answer, no report.
C5_ResetRestoresStartup ==
    /\ [](run.action = "reset" => ~initialized /\ ENABLED PageLoad)
    /\ [][run.action = "reset"
           => /\ ~initialized
              /\ initialized'
              /\ interview_started' = FALSE
              /\ questions' = <<>>
              /\ current_question_idx' = 0
              /\ all_responses' = <<>>
              /\ current_user_answer' = <<>>
              /\ final_report' = None]_vars

C5_Witness ==
    /\ run.action = "reset"
    /\ ~initialized
    /\ ENABLED (PageLoad /\ SessionNow' = InitialSession)

\* C6: a submit of the empty answer in InProgress changes neither the
\* index, the records, the questions, the report nor the phase, calls no
\* service and shows a warning.
C6_EmptySubmitRejected ==
    [][(\E response \in EvalResponses : Submit(<<>>, response))
           => /\ UNCHANGED <<current_question_idx, all_responses, questions,
                             final_report, interview_started>>
              /\ Phase' = Phase
              /\ run'.gateway = "none"
              /\ \E notice \in run'.notices : IsWarning(notice)]_vars

C6_Witness ==
    /\ Phase = "InProgress"
    /\ current_question_idx = 1
    /\ run.action = "submit"
    /\ run.gateway = "none"
    /\ "warning: provide an answer" \in run.notices

\* C7: a report step is taken only while there is no report, and a report
\* that is set, a failure text included, is changed by no step but a reset.
C7_ReportSetOnce ==
    [][/\ (\E response \in ReportResponses : GenerateReport(response))
              => final_report = None
       /\ final_report # None
              => \/ final_report' = final_report
                 \/ run'.action = "reset" /\ final_report' = None]_vars

C7_Witness ==
    /\ final_report = Some(FailedReport)
    /\ Phase = "Reported"
    /\ run.action = "rerun"
    /\ ~rerun_requested
    /\ ~ENABLED (\E response \in ReportResponses : GenerateReport(response))

\* C8: there is a report only if the interview was started and the index
\* is the length of the question list.
C8_ReportOnlyAfterLastQuestion ==
    final_report # None
        => interview_started /\ current_question_idx = Len(questions)

C8_Witness ==
    /\ final_report = Some(strip(ReportReply))
    /\ current_question_idx = Len(questions)
    /\ Len(questions) = 3

\* C9: in InProgress, once the interview screen is drawn (the last run did
\* not end in st.rerun()), a skip is enabled whatever the pending answer; it
\* appends the one record of the current question with answer "Skipped" and
\* feedback "No feedback.", steps the index by one and calls no service; the
\* third advance of a three-question session being a skip, the phase is
\* Summary.
C9_SkipAppendsSentinelRecord ==
    [][/\ (Phase = "InProgress" /\ ~rerun_requested) => ENABLED Skip
       /\ run'.action = "skip"
              => /\ Phase = "InProgress"
                 /\ all_responses' =
                        Append(all_responses,
                               [question |->
                                    questions[current_question_idx + 1],
                                answer |->
                                    <<"S", "k", "i", "p", "p", "e", "d">>,
                                feedback |->
                                    <<"N", "o", " ", "f", "e", "e", "d",
                                      "b", "a", "c", "k", ".">>])
                 /\ current_question_idx' = current_question_idx + 1
                 /\ run'.gateway = "none"
                 /\ (Len(questions) = 3 /\ Len(all_responses') = 3)
                        => Phase' = "Summary"]_vars

C9_Witness ==
    /\ Len(questions) = 3
    /\ Len(all_responses) = 3
    /\ all_responses[1].answer = SpokenText
    /\ all_responses[2].answer = SpokenText
    /\ all_responses[3].answer = SkippedAnswer
    /\ run.action = "skip"
    /\ Phase = "Summary"

\* The score a feedback text of ReportFeedbacks or of the evaluation carries,
\* read off the text by hand; -1 if it carries none.
KnownScore(feedback) ==
    CASE feedback = strip(ScoredReply) -> 7
      [] feedback = strip(LowerScoredReply) -> 6
      [] feedback = FullScore -> 10
      [] feedback = TwoScores -> 3
      [] OTHER -> -1

RECURSIVE KnownTotal(_)
KnownTotal(responses) ==
    IF responses = <<>> THEN 0
    ELSE KnownTotal(Tail(responses))
             + (IF KnownScore(Head(responses).feedback) >= 0
                THEN KnownScore(Head(responses).feedback)
                ELSE 0)

KnownCount(responses) ==
    Cardinality({i \in 1..Len(responses) :
                     KnownScore(responses[i].feedback) >= 0})

\* C10: the average of a report prompt is the sum of the scores over the
\* number of the records that carry a score; the other records count in
\* neither; it is 0.0 if no record carries a score, and 7.0 for the one
\* record that scores 7.
C10_AverageOverScoredRecords ==
    run.action = "report"
        => /\ run.avg_score =
                  FormatAverage(KnownTotal(all_responses),
                                KnownCount(all_responses))
           /\ KnownCount(all_responses) = 0
                  => run.avg_score = <<"0", ".", "0">>
           /\ (Len(all_responses) = 1
                   /\ KnownScore(all_responses[1].feedback) = 7)
                  => run.avg_score = <<"7", ".", "0">>

C10_Witness ==
    /\ run.action = "report"
    /\ Len(all_responses) = 3
    /\ all_responses[1].feedback = NoFeedback
    /\ all_responses[2].feedback = FailedEvaluation
    /\ all_responses[3].feedback = strip(ScoredReply)
    /\ run.avg_score = <<"7", ".", "0">>

\* The number of tenths a text of the form "<digits>.<digit>" stands for.
ParseTenths(text) ==
    10 * ParseInt(SubSeq(text, 1, Len(text) - 2)) + DigitVal(text[Len(text)])

\* text is decimal digits, a point, and one decimal digit.
IsOneDecimal(text) ==
    /\ Len(text) >= 3
    /\ text[Len(text) - 1] = "."
    /\ \A i \in (1..Len(text)) \ {Len(text) - 1} : IsDigit(text[i])

\* C11, as claimed: the average of a report prompt is the quotient of the
\* total by the count with the digits after the first decimal cut off.
C11_AverageTruncated ==
    (run.action = "report" /\ KnownCount(all_responses) > 0)
        => /\ IsOneDecimal(run.avg_score)
           /\ ParseTenths(run.avg_score) =
                  (10 * KnownTotal(all_responses))
                      \div KnownCount(all_responses)

\* C11, amended: the average of a report prompt is the tenth nearest to the
\* quotient of the total by the count, and the even one of the two if the
\* quotient lies midway between two tenths.
C11_AverageRounded ==
    (run.action = "report" /\ KnownCount(all_responses) > 0)
        => /\ IsOneDecimal(run.avg_score)
           /\ LET tenths == ParseTenths(run.avg_score)
                  count == KnownCount(all_responses)
                  off == 10 * KnownTotal(all_responses) - tenths * count
                  dist == IF off < 0 THEN -off ELSE off
              IN  /\ 2 * dist <= count
                  /\ 2 * dist = count => tenths % 2 = 0

C11_Witness ==
    /\ run.action = "report"
    /\ Len(all_responses) = 3
    /\ all_responses[1].feedback = strip(ScoredReply)
    /\ all_responses[2].feedback = strip(ScoredReply)
    /\ all_responses[3].feedback = strip(LowerScoredReply)
    /\ run.avg_score = <<"6", ".", "7">>

\* The lists the question generation returns for a reply with text, under
\* the configuration of the session.
ReturnedLists ==
    {generate_llm_questions_gemini(
         job_role, interview_type, num_questions, domain, Ok(t)) :
         t \in QuestionReplies}

\* C12: a start that succeeds leads from Setup to InProgress with the
\* returned list as the questions, a list that is not empty and whose first
\* question is not a failure text, with index 0, no records and no report,
\* whatever the session held before.
C12_StartInitialisesSession ==
    [][(run'.action = "start" /\ interview_started')
           => /\ Phase = "Setup"
              /\ Phase' = "InProgress"
              /\ questions' \in ReturnedLists
              /\ questions' # <<>>
              /\ questions'[1] \notin {BlockedQuestion, FailedQuestion}
              /\ current_question_idx' = 0
              /\ all_responses' = <<>>
              /\ final_report' = None]_vars

C12_Witness ==
    /\ run.action = "start"
    /\ Phase = "InProgress"
    /\ Len(questions) = 3
    /\ num_questions = 3
    /\ current_question_idx = 0
    /\ all_responses = <<>>
    /\ final_report = None

\* C13: a submit of a non-empty answer whose evaluation raises or is
\* blocked appends the record of the current question with the answer and
\* the failure text as feedback, and steps the index by one.
C13_FailedEvaluationAdvances ==
    [][\A user_answer \in AnswerTexts, response \in {Raised, Blocked} :
           Submit(user_answer, response)
               => /\ all_responses' =
                         Append(all_responses,
                                [question |->
                                     questions[current_question_idx + 1],
                                 answer |-> user_answer,
                                 feedback |->
                                     IF response = Raised
                                     THEN FailedEvaluation
                                     ELSE BlockedEvaluation])
                  /\ current_question_idx' = current_question_idx + 1
                  /\ run'.gateway = "evaluate"]_vars

C13_Witness ==
    /\ run.action = "submit"
    /\ current_question_idx = 2
    /\ all_responses[1].feedback = BlockedEvaluation
    /\ all_responses[1].answer = SpokenText
    /\ all_responses[2].feedback = FailedEvaluation
    /\ all_responses[2].answer = SpokenText

\* C14: a submit, a skip, a voice answer and a report leave the records
\* appended before, and their order, as they were.
C14_RecordsAppendOnly ==
    [][run'.action \in {"submit", "skip", "voice", "report"}
           => /\ Len(all_responses') >= Len(all_responses)
              /\ SubSeq(all_responses', 1, Len(all_responses))
                     = all_responses]_vars

C14_Witness ==
    /\ run.action = "report"
    /\ Len(all_responses) = 3
    /\ all_responses[1].answer = SpokenText
    /\ all_responses[1].feedback = strip(ScoredReply)
    /\ all_responses[2].answer = SkippedAnswer
    /\ all_responses[3].feedback = FailedEvaluation

\* C15: once the interview is started, no step but a reset changes the job
\* role, the domain, the interview type, the question count or the question
\* list.
C15_ConfigFixedAfterStart ==
    [][(interview_started /\ run'.action # "reset")
           => UNCHANGED <<job_role, domain, interview_type, num_questions,
                          questions>>]_vars

C15_Witness ==
    /\ Phase = "Reported"
    /\ run.action = "report"
    /\ job_role = "Backend Engineer"
    /\ domain = ""
    /\ interview_type = "Technical Interview"
    /\ num_questions = SliderMin
    /\ Len(questions) = SliderMin

\* A step of the interactive flow: the first drawing of the page, any
\* button or widget of it, or a drawing of it again.
InteractiveStep ==
    \/ PageLoad
    \/ \E role \in JobRoles, dom \in Domains, itype \in InterviewTypes,
          n \in QuestionCounts : Configure(role, dom, itype, n)
    \/ \E response \in GenResponses : Start(response)
    \/ \E speech \in SpeechOutcomes : VoiceAnswer(speech)
    \/ \E user_answer \in UserAnswers, response \in EvalResponses :
           Submit(user_answer, response)
    \/ Skip
    \/ \E response \in ReportResponses : GenerateReport(response)
    \/ Reset
    \/ Rerun

\* C16, as claimed: without the API key no session is created, no step of
\* the interactive flow is enabled, and a run shows the error about the key
\* and the instructions, and nothing else.
C16_NoKeyOnlyKeyError ==
    ~api_key
        => /\ ~initialized
           /\ ~ENABLED InteractiveStep
           /\ run.action \in {"none", "load"}
           /\ run.gateway = "none"
           /\ run.action = "load"
                  => run.notices =
                         {"error: GOOGLE_API_KEY not found",
                          "info: .env file"}

\* C16, amended: without the API key no session is created, no step of the
\* interactive flow is enabled, and a run shows the error about the key and
\* the instructions, and besides them only the error about the speech
\* engine, which it shows exactly when the engine cannot be made.
C16_NoKeyNoFlow ==
    ~api_key
        => /\ ~initialized
           /\ ~ENABLED InteractiveStep
           /\ run.action \in {"none", "load"}
           /\ run.gateway = "none"
           /\ run.action = "load"
                  => run.notices =
                         {"error: GOOGLE_API_KEY not found",
                          "info: .env file"}
                             \cup (IF engine THEN {}
                                   ELSE {"error: tts init"})

C16_Witness ==
    /\ ~api_key
    /\ ~engine
    /\ run.action = "load"
    /\ run.notices =
           {"error: GOOGLE_API_KEY not found", "info: .env file",
            "error: tts init"}
    /\ ~initialized

\* s begins with prefix.
HasPrefix(s, prefix) ==
    Len(s) >= Len(prefix) /\ SubSeq(s, 1, Len(prefix)) = prefix

\* C17: a start fails exactly when the generated list is empty or its first
\* question begins with "Could not generate"; a list whose first question
\* has that text elsewhere than at its beginning starts the interview.
C17_StartFailsOnPrefixOnly ==
    [][run'.action = "start"
           => (interview_started'
                   <=> /\ questions' # <<>>
                       /\ ~HasPrefix(questions'[1], CouldNotGenerate))]_vars

\* C18: a voice answer, recognised or not, changes neither the index, the
\* records, the questions nor the report and leaves the phase InProgress;
\* it stores the recognised text, and the empty text on every failure; the
\* one step that can follow it is the drawing of the same interview screen,
\* which changes nothing of the session, and on the drawn interview screen
\* a typed answer can be submitted and the question can be skipped.
C18_VoiceAnswerOnlySetsPending ==
    [][/\ \A speech \in SpeechOutcomes :
              VoiceAnswer(speech)
                  => /\ UNCHANGED <<current_question_idx, all_responses,
                                    questions, final_report>>
                     /\ Phase' = "InProgress"
                     /\ speech.kind # "ok" => current_user_answer' = <<>>
                     /\ speech.kind = "ok"
                            => current_user_answer' = speech.text
       /\ run.action = "voice"
              => /\ run'.action = "rerun"
                 /\ UNCHANGED <<session, config>>
                 /\ Phase' = "InProgress"
                 /\ ~rerun_requested'
       /\ (Phase = "InProgress" /\ ~rerun_requested)
              => /\ ENABLED Skip
                 /\ ENABLED Submit(SpokenText, Ok(ScoredReply))]_vars

C18_Witness ==
    /\ run.action = "voice"
    /\ "error: speech service unavailable" \in run.notices
    /\ current_user_answer = <<>>
    /\ Phase = "InProgress"
    /\ current_question_idx = 1
    /\ rerun_requested
    /\ ENABLED (Rerun /\ Phase' = "InProgress" /\ ~rerun_requested')

\* C19: in a started interview the question list has between one and
\* num_questions questions and the index lies between 0 and its length; a
\* submit or a skip is enabled only while the index is below the length.
C19_IndexWithinQuestions ==
    interview_started
        => /\ 1 <= Len(questions)
           /\ Len(questions) <= num_questions
           /\ 0 <= current_question_idx
           /\ current_question_idx <= Len(questions)
           /\ (ENABLED Skip \/ ENABLED Submit(SpokenText, Ok(ScoredReply)))
                  => current_question_idx < Len(questions)

C19_Witness ==
    /\ interview_started
    /\ num_questions = SliderMin
    /\ Len(questions) = SliderMin
    /\ current_question_idx = Len(questions)
    /\ ~rerun_requested
    /\ ~ENABLED Skip
    /\ ~ENABLED Submit(SpokenText, Ok(ScoredReply))

\* C20: in a started interview the i-th record is the record of the i-th
\* question, and in Summary and in Reported there is one record for every
\* question.
C20_RecordsFollowQuestions ==
    interview_started
        => /\ Len(all_responses) <= Len(questions)
           /\ \A i \in 1..Len(all_responses) :
                  all_responses[i].question = questions[i]
           /\ Phase \in {"Summary", "Reported"}
                  => Len(all_responses) = Len(questions)

C20_Witness ==
    /\ Phase = "Reported"
    /\ Len(questions) = 3
    /\ Len(all_responses) = 3
    /\ all_responses[1].question = <<"Q", "1">>
    /\ all_responses[2].question = <<"Q", "2">>
    /\ all_responses[3].question = <<"Q", "3">>
    /\ all_responses[2].answer = SkippedAnswer
    /\ all_responses[3].answer = SpokenText

====
